---- MODULE Spec2Model ----
(***************************************************************************)
(* Model of the Nazara scheduled greeting bot (main.py) and of the echo    *)
(* bot (bot/echo_bot.py).                                                  *)
(*                                                                         *)
(* Spec      one run of main.py: configuration check, run_bot, exit.       *)
(* SpecHour  get_time_based_greeting_message applied to integer hours.     *)
(* SpecSend  send_telegram_message applied to arbitrary arguments.         *)
(* SpecEcho  the echo bot's handlers applied to incoming updates.          *)
(***************************************************************************)
EXTENDS Integers, Sequences, FiniteSets, TLC

VARIABLES
    TELEGRAM_BOT_TOKEN, \* os.getenv('TELEGRAMBOTTOKEN')
    TELEGRAM_CHAT_ID,   \* os.getenv('TELEGRAMCHATID')
    utc_hour,           \* now_utc.hour, or the argument of the greeting selector
    today_utc,          \* now_utc.date(), as [month, day]
    holiday_greeting,   \* run_bot's local
    greeting_message,   \* run_bot's local / the selector's return value
    pc,                 \* position of the process
    exit_code,          \* process exit status, NoExit while running
    net,                \* requests issued to external collaborators, in order
    responses,          \* what the collaborator answered to each request
    send_calls,         \* number of calls of send_telegram_message
    send_result,        \* what the last call of send_telegram_message did
    updates,            \* updates the echo bot has received, in order
    replies             \* replies the echo bot has produced, in order

vars == <<TELEGRAM_BOT_TOKEN, TELEGRAM_CHAT_ID, utc_hour, today_utc,
          holiday_greeting, greeting_message, pc, exit_code, net, responses,
          send_calls, send_result, updates, replies>>

botVars == <<TELEGRAM_BOT_TOKEN, TELEGRAM_CHAT_ID, utc_hour, today_utc,
             holiday_greeting, greeting_message, exit_code>>

netVars == <<net, responses, send_calls, send_result>>

echoVars == <<updates, replies>>

----------------------------------------------------------------------------
(* Python values *)

\* Python's None
None == "<None>"

\* The exit status of a process that has not exited
NoExit == "<running>"

\* bool(v) for a value that is None or a string
Truthy(v) == v # None /\ v # ""

Range(s) == {s[i] : i \in DOMAIN s}

\* all(xs) with every element taken as a bool
all_mutAny(xs) == \E i \in DOMAIN xs : Truthy(xs[i])

all(xs) == \A i \in DOMAIN xs : Truthy(xs[i])

\* random.choice(pool): any element
random_choice(pool) == Range(pool)

----------------------------------------------------------------------------
(* main.py: the greeting pools and the holiday table *)

morning_greetings == <<
    "Good Morning, tech explorers! Rise and shine, it's a new day to build and innovate!",
    "Mornin' geeks! Time to debug your sleep and compile some productivity. Have a great one!",
    "Top of the morning! May your code be bug-free and your coffee strong today.",
    "Wake up, world-changers! The servers of opportunity are online. Good Morning!",
    "Hello, bright minds! Hope your day is as organized as a well-commented codebase. Good Morning!" >>

afternoon_greetings == <<
    "Good Afternoon, everyone! Hope your projects are compiling nicely and your algorithms are efficient.",
    "Midday greetings! Just a friendly reminder to take a break from your screens and recharge.",
    "Afternoon, tech fam! Keep those innovation engines running! Only a few more hours till day's end.",
    "Happy afternoon coding! May your debug sessions be short and your breakthroughs many.",
    "Greetings from the digital realm! Enjoy your afternoon." >>

evening_greetings == <<
    "Good Evening! Time to wind down and reflect on a day of digital adventures. What did you learn today?",
    "Evening, team! Hope your sprints were successful and your systems stable. Enjoy your night!",
    "As the day winds down, may your tech dreams be filled with clean code and new ideas. Good evening!",
    "Unplug and unwind. Wishing you a peaceful evening after a day of tech triumphs. Good Evening!",
    "The day's code is committed, now it's time to relax. Good Evening, everyone!" >>

night_greetings == <<
    "Good Night, fellow coders! Rest well, and may your dreams be of perfectly optimized solutions.",
    "Sweet dreams to all the tech minds out there! Recharge for another day of innovation.",
    "Time to power down! Wishing you a peaceful night and a fresh start tomorrow.",
    "Sending sleepy bytes your way. Good Night, and happy dreaming of future tech!",
    "The network is quiet. Time for some offline processing. Good Night!" >>

holidays ==
    (<<1, 1>>   :> "Happy New Year! Wishing you a year of exciting tech breakthroughs and successful projects!") @@
    (<<2, 14>>  :> "Happy Valentine's Day! Sending love and good vibes to all our tech community!") @@
    (<<3, 17>>  :> "Happy St. Patrick's Day! May your code be green and your bugs be few!") @@
    (<<4, 1>>   :> "Happy April Fools' Day! Don't let your code play any tricks on you today!") @@
    (<<5, 1>>   :> "Happy May Day! Celebrating the spirit of innovation and collaboration in tech!") @@
    (<<7, 4>>   :> "Happy Independence Day! May your freedoms be as strong as your Wi-Fi signal! (For US)") @@
    (<<9, 5>>   :> "Happy Labor Day! Taking a break from the grind to appreciate all tech workers! (Example - adjust for your region)") @@
    (<<10, 31>> :> "Happy Halloween! May your night be spooky and your data secure!") @@
    (<<11, 11>> :> "Happy Veterans Day! Honoring those who served, building a better future through tech! (For US)") @@
    (<<12, 25>> :> "Merry Christmas! May your holidays be filled with joy, and your gadgets fully charged!") @@
    (<<12, 31>> :> "Happy New Year's Eve! Reflect on a year of tech advancements and get ready for more!")

\* Variant with the afternoon band ending at 18 instead of 17.
get_time_based_greeting_message_mut18(h) ==
    IF 5 <= h /\ h < 12 THEN random_choice(morning_greetings)
    ELSE IF 12 <= h /\ h < 18 THEN random_choice(afternoon_greetings)
    ELSE IF 18 <= h /\ h < 23 THEN random_choice(evening_greetings)
    ELSE IF 23 <= h \/ h < 5 THEN random_choice(night_greetings)
    ELSE {None}

\* Variant whose night test is a conjunction, so that it never matches.
get_time_based_greeting_message_mutAnd(h) ==
    IF 5 <= h /\ h < 12 THEN random_choice(morning_greetings)
    ELSE IF 12 <= h /\ h < 17 THEN random_choice(afternoon_greetings)
    ELSE IF 17 <= h /\ h < 23 THEN random_choice(evening_greetings)
    ELSE IF 23 <= h /\ h < 5 THEN random_choice(night_greetings)
    ELSE {None}

\* The set of values get_time_based_greeting_message(utc_hour) can return
get_time_based_greeting_message(h) ==
    IF 5 <= h /\ h < 12 THEN random_choice(morning_greetings)
    ELSE IF 12 <= h /\ h < 17 THEN random_choice(afternoon_greetings)
    ELSE IF 17 <= h /\ h < 23 THEN random_choice(evening_greetings)
    ELSE IF 23 <= h \/ h < 5 THEN random_choice(night_greetings)
    ELSE {None}

\* Variant that looks the date up as (day, month).
get_holiday_greeting_mutSwap(today) ==
    IF <<today.day, today.month>> \in DOMAIN holidays
    THEN holidays[<<today.day, today.month>>]
    ELSE None

get_holiday_greeting(today) ==
    IF <<today.month, today.day>> \in DOMAIN holidays
    THEN holidays[<<today.month, today.day>>]
    ELSE None

----------------------------------------------------------------------------
(* main.py: send_telegram_message *)

\* What the messaging collaborator can do with one request: the POST fails at
\* the network level, or it returns a response with an HTTP status.
Outcomes ==
    { [kind |-> "ConnectionError", status |-> 0],
      [kind |-> "Timeout", status |-> 0],
      [kind |-> "response", status |-> 200],
      [kind |-> "response", status |-> 403],
      [kind |-> "response", status |-> 500] }

NoExc == "<no exception>"

\* response.raise_for_status(): HTTPError for 4xx and 5xx
raise_for_status(status) ==
    IF 400 <= status /\ status < 600 THEN "HTTPError" ELSE NoExc

\* The exception the try block raises, if any
Raised(outcome) ==
    IF outcome.kind # "response" THEN outcome.kind
    ELSE raise_for_status(outcome.status)

\* Variant of the except clause that catches HTTP errors only.
RequestException_mutHTTPOnly == {"HTTPError"}

\* The exception classes `except requests.exceptions.RequestException` catches
RequestException == {"HTTPError", "ConnectionError", "Timeout"}

Request(chat_id, text) ==
    [api |-> "sendMessage", chat_id |-> chat_id, text |-> text,
     parse_mode |-> "Markdown"]

\* What a call returns: "True", "False", or "raised" when an exception escapes
SendReturn(outcome) ==
    IF Raised(outcome) = NoExc THEN "True"
    ELSE IF Raised(outcome) \in RequestException THEN "False"
    ELSE "raised"

\* Variant that posts a second time when the first request fails.
send_telegram_message_mutRetry(chat_id, text, outcome) ==
    /\ send_calls' = send_calls + 1
    /\ IF Raised(outcome) = NoExc
       THEN /\ net' = Append(net, Request(chat_id, text))
            /\ responses' = Append(responses, outcome)
       ELSE /\ net' = net \o <<Request(chat_id, text), Request(chat_id, text)>>
            /\ responses' = responses \o <<outcome, outcome>>
    /\ send_result' = SendReturn(outcome)

send_telegram_message(chat_id, text, outcome) ==
    /\ send_calls' = send_calls + 1
    /\ net' = Append(net, Request(chat_id, text))
    /\ responses' = Append(responses, outcome)
    /\ send_result' = SendReturn(outcome)

----------------------------------------------------------------------------
(* main.py: one run of the script *)

\* Values an environment variable can have: unset, empty, set
EnvValues(set) == {None, "", set}

Months == 1..12

DaysIn(m) == IF m = 2 THEN 29 ELSE IF m \in {4, 6, 9, 11} THEN 30 ELSE 31

Dates == {d \in [month : Months, day : 1..31] : d.day <= DaysIn(d.month)}

Hours == 0..23

Init ==
    /\ TELEGRAM_BOT_TOKEN \in EnvValues("123:abc")
    /\ TELEGRAM_CHAT_ID \in EnvValues("-1001")
    /\ utc_hour \in Hours
    /\ today_utc \in Dates
    /\ holiday_greeting = None
    /\ greeting_message = None
    /\ pc = "load"
    /\ exit_code = NoExit
    /\ net = <<>>
    /\ responses = <<>>
    /\ send_calls = 0
    /\ send_result = None
    /\ updates = <<>>
    /\ replies = <<>>

\* Where the process is after a call of send_telegram_message
AfterSend(outcome) ==
    IF SendReturn(outcome) = "raised"
    THEN pc' = "exited" /\ exit_code' = 1   \* uncaught exception
    ELSE pc' = "return" /\ exit_code' = exit_code

\* The module-level check of the two environment variables
ConfigCheck ==
    /\ pc = "load"
    /\ IF ~all(<<TELEGRAM_BOT_TOKEN, TELEGRAM_CHAT_ID>>)
       THEN pc' = "exited" /\ exit_code' = 1
       ELSE pc' = "run_bot" /\ exit_code' = exit_code
    /\ UNCHANGED <<TELEGRAM_BOT_TOKEN, TELEGRAM_CHAT_ID, utc_hour, today_utc,
                   holiday_greeting, greeting_message>>
    /\ UNCHANGED netVars
    /\ UNCHANGED echoVars

\* run_bot up to the test of holiday_greeting
HolidayLookup ==
    /\ pc = "run_bot"
    /\ holiday_greeting' = get_holiday_greeting(today_utc)
    /\ pc' = "branch"
    /\ UNCHANGED <<TELEGRAM_BOT_TOKEN, TELEGRAM_CHAT_ID, utc_hour, today_utc,
                   greeting_message, exit_code>>
    /\ UNCHANGED netVars
    /\ UNCHANGED echoVars

\* Variant in which the time-based greeting is not under an else: a holiday
\* run sends the holiday greeting and then the time-based greeting too.
SendHoliday_mutFallThrough ==
    /\ pc = "branch"
    /\ Truthy(holiday_greeting)
    /\ \E g \in get_time_based_greeting_message(utc_hour), o1, o2 \in Outcomes :
          /\ greeting_message' = g
          /\ net' = net \o <<Request(TELEGRAM_CHAT_ID, holiday_greeting),
                             Request(TELEGRAM_CHAT_ID, g)>>
          /\ responses' = responses \o <<o1, o2>>
          /\ send_calls' = send_calls + 2
          /\ send_result' = SendReturn(o2)
          /\ AfterSend(o2)
    /\ UNCHANGED <<TELEGRAM_BOT_TOKEN, TELEGRAM_CHAT_ID, utc_hour, today_utc,
                   holiday_greeting>>
    /\ UNCHANGED echoVars

\* run_bot, the branch taken when holiday_greeting is truthy
SendHoliday ==
    /\ pc = "branch"
    /\ Truthy(holiday_greeting)
    /\ \E outcome \in Outcomes :
          /\ send_telegram_message(TELEGRAM_CHAT_ID, holiday_greeting, outcome)
          /\ AfterSend(outcome)
    /\ UNCHANGED <<TELEGRAM_BOT_TOKEN, TELEGRAM_CHAT_ID, utc_hour, today_utc,
                   holiday_greeting, greeting_message>>
    /\ UNCHANGED echoVars

\* run_bot, the else branch: select the time-based greeting and send it
SendTimeBased ==
    /\ pc = "branch"
    /\ ~Truthy(holiday_greeting)
    /\ \E g \in get_time_based_greeting_message(utc_hour) :
          /\ greeting_message' = g
          /\ IF Truthy(g)
             THEN \E outcome \in Outcomes :
                     /\ send_telegram_message(TELEGRAM_CHAT_ID, g, outcome)
                     /\ AfterSend(outcome)
             ELSE /\ pc' = "return"
                  /\ UNCHANGED exit_code
                  /\ UNCHANGED netVars
    /\ UNCHANGED <<TELEGRAM_BOT_TOKEN, TELEGRAM_CHAT_ID, utc_hour, today_utc,
                   holiday_greeting>>
    /\ UNCHANGED echoVars

\* run_bot returns and the script ends
Finish ==
    /\ pc = "return"
    /\ pc' = "done"
    /\ exit_code' = 0
    /\ UNCHANGED <<TELEGRAM_BOT_TOKEN, TELEGRAM_CHAT_ID, utc_hour, today_utc,
                   holiday_greeting, greeting_message>>
    /\ UNCHANGED netVars
    /\ UNCHANGED echoVars

Next == ConfigCheck \/ HolidayLookup \/ SendHoliday \/ SendTimeBased \/ Finish

Spec == Init /\ [][Next]_vars

----------------------------------------------------------------------------
(* get_time_based_greeting_message applied to any integer hour *)

\* Hours tried below 0 and above 23
HourSpan == 80

InitHour ==
    /\ TELEGRAM_BOT_TOKEN = "123:abc"
    /\ TELEGRAM_CHAT_ID = "-1001"
    /\ utc_hour \in (0 - HourSpan)..(23 + HourSpan)
    /\ today_utc \in {[month |-> 6, day |-> 15]}
    /\ holiday_greeting = None
    /\ greeting_message = None
    /\ pc = "call"
    /\ exit_code = NoExit
    /\ net = <<>>
    /\ responses = <<>>
    /\ send_calls = 0
    /\ send_result = None
    /\ updates = <<>>
    /\ replies = <<>>

SelectGreeting ==
    /\ pc = "call"
    /\ greeting_message' \in get_time_based_greeting_message(utc_hour)
    /\ pc' = "returned"
    /\ UNCHANGED <<TELEGRAM_BOT_TOKEN, TELEGRAM_CHAT_ID, utc_hour, today_utc,
                   holiday_greeting, exit_code>>
    /\ UNCHANGED netVars
    /\ UNCHANGED echoVars

NextHour == SelectGreeting

SpecHour == InitHour /\ [][NextHour]_vars

----------------------------------------------------------------------------
(* send_telegram_message applied to any arguments *)

\* Calls of send_telegram_message made in a row
MaxCalls == 3

SendChatIds == {"-1001", "42"}

SendTexts == {"", "hi", holidays[<<12, 25>>]}

InitSend ==
    /\ TELEGRAM_BOT_TOKEN = "123:abc"
    /\ TELEGRAM_CHAT_ID = "-1001"
    /\ utc_hour = 0
    /\ today_utc \in {[month |-> 6, day |-> 15]}
    /\ holiday_greeting = None
    /\ greeting_message = None
    /\ pc = "caller"
    /\ exit_code = NoExit
    /\ net = <<>>
    /\ responses = <<>>
    /\ send_calls = 0
    /\ send_result = None
    /\ updates = <<>>
    /\ replies = <<>>

CallSend ==
    /\ pc = "caller"
    /\ send_calls < MaxCalls
    /\ \E chat_id \in SendChatIds, text \in SendTexts, outcome \in Outcomes :
          send_telegram_message(chat_id, text, outcome)
    /\ UNCHANGED pc
    /\ UNCHANGED botVars
    /\ UNCHANGED echoVars

NextSend == CallSend

SpecSend == InitSend /\ [][NextSend]_vars

----------------------------------------------------------------------------
(* bot/echo_bot.py *)

\* Updates received in one execution
MaxUpdates == 3

\* The command a text starts with (a bot_command entity at offset 0), None
\* for a text that does not start with a command.
commandOf ==
    ("/start" :> "start") @@ ("/help" :> "help") @@ ("/start now" :> "start") @@
    ("/foo" :> "foo") @@ ("hello" :> None) @@ ("say /start" :> None)

\* Text updates: a new message, or an edit of an old one (update.message is
\* None for an edit).
Updates == [type : {"message", "edited_message"}, text : DOMAIN commandOf]

\* The handlers in the order main() registers them
handlers ==
    << [kind |-> "CommandHandler", command |-> "start", callback |-> "start"],
       [kind |-> "CommandHandler", command |-> "help", callback |-> "help_command"],
       [kind |-> "MessageHandler", command |-> None, callback |-> "echo"] >>

\* Does handler h take update u? The message handler's filter is
\* filters.TEXT & ~filters.COMMAND.
check_update(h, u) ==
    IF h.kind = "CommandHandler"
    THEN commandOf[u.text] = h.command
    ELSE Truthy(u.text) /\ ~(commandOf[u.text] # None)

\* The first registered handler that takes the update handles it
Matching(u) == {i \in DOMAIN handlers : check_update(handlers[i], u)}

Dispatch(u) ==
    IF Matching(u) = {} THEN None
    ELSE handlers[CHOOSE i \in Matching(u) : \A j \in Matching(u) : i <= j].callback

start(u) == "Hi <user>! I'm an echo bot. Send me anything!"

\* Variant that answers every text with a fixed acknowledgement.
echo_mutFixed(u) == "Got it!"

echo(u) == u.text

help_command(u) == "Just send me any text, and I'll echo it back!"

\* The replies one update produces. Every callback replies through
\* update.message, which an edited message does not have: the callback
\* raises and nothing is sent.
RepliesTo(u, n) ==
    IF Dispatch(u) = None \/ u.type # "message" THEN <<>>
    ELSE << [to |-> n,
             body |-> CASE Dispatch(u) = "start" -> start(u)
                        [] Dispatch(u) = "help_command" -> help_command(u)
                        [] Dispatch(u) = "echo" -> echo(u)] >>

InitEcho ==
    /\ TELEGRAM_BOT_TOKEN = "123:abc"
    /\ TELEGRAM_CHAT_ID = None
    /\ utc_hour = 0
    /\ today_utc \in {[month |-> 6, day |-> 15]}
    /\ holiday_greeting = None
    /\ greeting_message = None
    /\ pc = "polling"
    /\ exit_code = NoExit
    /\ net = <<>>
    /\ responses = <<>>
    /\ send_calls = 0
    /\ send_result = None
    /\ updates = <<>>
    /\ replies = <<>>

\* One update arrives and is dispatched
Receive ==
    /\ pc = "polling"
    /\ Len(updates) < MaxUpdates
    /\ \E u \in Updates :
          /\ updates' = Append(updates, u)
          /\ replies' = replies \o RepliesTo(u, Len(updates) + 1)
    /\ UNCHANGED pc
    /\ UNCHANGED botVars
    /\ UNCHANGED netVars

NextEcho == Receive

SpecEcho == InitEcho /\ [][NextEcho]_vars

----------------------------------------------------------------------------
(* Properties *)

BandNames == {"Morning", "Afternoon", "Evening", "Night"}

PoolOf ==
    [Morning |-> morning_greetings, Afternoon |-> afternoon_greetings,
     Evening |-> evening_greetings, Night |-> night_greetings]

\* The hour ranges of the four bands as the specification states them
InBand(b, h) ==
    CASE b = "Morning" -> 5 <= h /\ h < 12
      [] b = "Afternoon" -> 12 <= h /\ h < 17
      [] b = "Evening" -> 17 <= h /\ h < 23
      [] b = "Night" -> h = 23 \/ h < 5

AllGreetings == UNION {Range(PoolOf[b]) : b \in BandNames}

ConfigMissing == ~Truthy(TELEGRAM_BOT_TOKEN) \/ ~Truthy(TELEGRAM_CHAT_ID)

HolidayDate == <<today_utc.month, today_utc.day>> \in DOMAIN holidays

Failed(o) == o.kind # "response" \/ o.status >= 400

SendRequests == {i \in DOMAIN net : net[i].api = "sendMessage"}

\* C1: for every hour in 0..23 the selector returns a string of the pool of
\* exactly one band, the band whose range contains the hour; the four ranges
\* are pairwise disjoint and cover 0..23.
C1_BandOfHour ==
    (pc = "returned" /\ utc_hour \in Hours) =>
        /\ Cardinality({b \in BandNames : InBand(b, utc_hour)}) = 1
        /\ Cardinality({b \in BandNames : greeting_message \in Range(PoolOf[b])}) = 1
        /\ \A b \in BandNames :
              InBand(b, utc_hour) <=> greeting_message \in Range(PoolOf[b])

C1_Witness ==
    /\ pc = "returned"
    /\ utc_hour = 17
    /\ greeting_message \in Range(evening_greetings)

\* C2: on a date whose (month, day) is in the holiday table the only text sent
\* is that date's holiday string, whatever the hour, and no time-based greeting
\* is selected; on any other date get_holiday_greeting returns None and the
\* time-based greeting is the text sent.
C2_HolidayPrecedence ==
    /\ HolidayDate =>
          /\ greeting_message = None
          /\ \A i \in DOMAIN net :
                net[i].text = holidays[<<today_utc.month, today_utc.day>>]
          /\ pc \in {"return", "done"} => Len(net) = 1
          /\ pc \in {"branch", "return", "done"} =>
                holiday_greeting = holidays[<<today_utc.month, today_utc.day>>]
    /\ ~HolidayDate =>
          /\ holiday_greeting = None
          /\ \A i \in DOMAIN net :
                net[i].text = greeting_message /\ greeting_message \in AllGreetings
          /\ pc \in {"return", "done"} => Len(net) = 1
    /\ (today_utc.month = 12 /\ today_utc.day = 25 /\ pc = "done") =>
          net[1].text = "Merry Christmas! May your holidays be filled with joy, and your gadgets fully charged!"
    /\ (today_utc.month = 1 /\ today_utc.day = 12 /\ pc = "done") =>
          net[1].text \in AllGreetings

C2_Witness ==
    /\ pc = "done"
    /\ today_utc = [month |-> 12, day |-> 25]
    /\ utc_hour = 14
    /\ Len(net) = 1
    /\ net[1].text = holidays[<<12, 25>>]
    /\ greeting_message = None

\* C3: when the bot token or the chat id is unset or empty, the process exits
\* with status 1 without selecting a greeting and without issuing a request.
C3_ConfigAbort ==
    ConfigMissing =>
        /\ pc \in {"load", "exited"}
        /\ pc = "exited" => exit_code = 1
        /\ net = <<>>
        /\ send_calls = 0
        /\ holiday_greeting = None
        /\ greeting_message = None

C3_Witness ==
    /\ pc = "exited"
    /\ exit_code = 1
    /\ TELEGRAM_BOT_TOKEN = "123:abc"
    /\ TELEGRAM_CHAT_ID = ""
    /\ net = <<>>

\* C4: every call of send_telegram_message issues exactly one send request,
\* whether the request succeeds, returns an HTTP error or fails at the network
\* level: the requests issued are as many as the calls made.
C4_OneRequestPerCall ==
    /\ Len(net) = send_calls
    /\ Len(responses) = send_calls
    /\ SendRequests = DOMAIN net

C4_Witness ==
    /\ send_calls = 3
    /\ Len(net) = 3
    /\ responses[1].kind = "ConnectionError"
    /\ responses[2].status = 403
    /\ responses[3].status = 200

\* C5: when a send request fails (HTTP error status or network failure),
\* send_telegram_message returns False and does not raise, the run goes on to
\* its normal end and the exit status is 0, as for a successful send.
C5_DeliverySwallowed ==
    /\ send_calls > 0 => send_result \in {"True", "False"}
    /\ \A i \in DOMAIN responses :
          /\ Failed(responses[i]) =>
                send_result = "False" /\ pc \in {"return", "done"}
          /\ ~Failed(responses[i]) =>
                send_result = "True" /\ pc \in {"return", "done"}
    /\ pc = "exited" => send_calls = 0
    /\ pc = "return" => ENABLED Finish
    /\ pc = "done" => exit_code = 0

C5_Witness ==
    /\ pc = "done"
    /\ exit_code = 0
    /\ send_result = "False"
    /\ Len(responses) = 1
    /\ responses[1].status = 403

\* C6: no send request with empty text is ever issued: a call of
\* send_telegram_message with empty text is rejected before the request.
C6_NoEmptyTextSent ==
    \A i \in DOMAIN net : net[i].text # ""

\* C7: every run that passes the configuration check requests blog content
\* from the text-generation collaborator exactly once.
C7_BlogRequestedOnce ==
    pc = "done" =>
        Cardinality({i \in DOMAIN net : net[i].api = "generateContent"}) = 1

\* C8 as stated: every new text message received, commands such as /start and
\* /help included, gets exactly one reply, whose body is the received text.
C8_EchoesEveryText ==
    \A n \in DOMAIN updates :
        updates[n].type = "message" =>
            /\ Cardinality({j \in DOMAIN replies : replies[j].to = n}) = 1
            /\ \A j \in DOMAIN replies :
                  replies[j].to = n => replies[j].body = updates[n].text

\* C8 amended: every new text message that does not start with a command gets
\* exactly one reply, whose body is the received text; /start and /help get
\* a fixed text instead, and any other command gets no reply.
C8_EchoesNonCommandText ==
    \A n \in DOMAIN updates :
        LET mine == {j \in DOMAIN replies : replies[j].to = n}
            u == updates[n]
        IN  u.type = "message" =>
              /\ commandOf[u.text] = None =>
                    /\ Cardinality(mine) = 1
                    /\ \A j \in mine : replies[j].body = u.text
              /\ commandOf[u.text] \in {"start", "help"} =>
                    /\ Cardinality(mine) = 1
                    /\ \A j \in mine : replies[j].body # u.text
              /\ commandOf[u.text] \notin {None, "start", "help"} => mine = {}

C8_Witness ==
    /\ Len(updates) = 2
    /\ updates[1] = [type |-> "message", text |-> "say /start"]
    /\ updates[2] = [type |-> "message", text |-> "/start"]
    /\ Len(replies) = 2
    /\ replies[1] = [to |-> 1, body |-> "say /start"]
    /\ replies[2].body # "/start"

\* C9: every run that passes the configuration check issues exactly one send
\* request: the holiday greeting or the time-based greeting, never both and
\* never neither, for every date and hour.
C9_ExactlyOneSend ==
    /\ Len(net) <= 1
    /\ (~ConfigMissing /\ pc \in {"return", "done"}) =>
          /\ Len(net) = 1
          /\ send_calls = 1
          /\ SendRequests = {1}
          /\ Truthy(holiday_greeting) # Truthy(greeting_message)
          /\ net[1].text = IF Truthy(holiday_greeting)
                           THEN holiday_greeting ELSE greeting_message

C9_Witness ==
    /\ pc = "done"
    /\ Len(net) = 1
    /\ today_utc = [month |-> 2, day |-> 29]
    /\ utc_hour = 23
    /\ net[1].text \in Range(night_greetings)

\* C10: for any integer hour the selector returns a greeting, never None; an
\* hour below 5 or at least 23, in or out of 0..23, yields a Night greeting.
C10_NeverNone ==
    pc = "returned" =>
        /\ greeting_message # None
        /\ greeting_message \in AllGreetings
        /\ (utc_hour < 5 \/ utc_hour >= 23) =>
              greeting_message \in Range(night_greetings)

C10_Witness ==
    /\ pc = "returned"
    /\ utc_hour = 100
    /\ greeting_message \in Range(night_greetings)

====
